---------------------------- MODULE Spec2Model ----------------------------
(***************************************************************************)
(* Model of the 2K game tracker (src/game_tracker.py): the GameTracker     *)
(* state, process_frame (quarter and score change detection) and           *)
(* process_video_to_summary (quarter breakdown, shot types, scoring runs). *)
(*                                                                         *)
(* The OCR functions are the environment: every frame step draws what      *)
(* they return from the sets below.  ocr_scores returns None or a value in *)
(* 0..99 for each side, ocr_quarter one of the five labels or "".          *)
(***************************************************************************)
EXTENDS Integers, Sequences, FiniteSets, TLC

VARIABLES
    tracker,    \* the GameTracker object
    data,       \* the FrameData returned by the last process_frame call
    summaries,  \* what the calls of process_video_to_summary made since the
                \* last frame returned, the last two of them
    batch,      \* the last call of batch_extract_clips, when no frame or
                \* summary came after it: its arguments, the extractions
                \* that failed, the calls of ffmpeg and the list returned
    quarter_text,  \* the text read off the quarter region of the last
                \* frame, where the specification follows it
    store,      \* the dashboard's files: the approved games (games.json)
                \* and the pending games (pending_games.json)
    result,     \* the last call of a dashboard function: its name, its
                \* argument and what it returned or raised
    op          \* the path the last call took: "init", "live", "nonlive",
                \* "summary", "clips", "dashboard"

vars == <<tracker, data, summaries, batch, quarter_text, store, result, op>>

---------------------------------------------------------------------------
\* Bounds of the model

\* number of frames sampled from one video
MaxFrames == 2

\* number of frames sampled from one video when every frame is a basket
MaxRunFrames == 4

\* number of frames sampled from a video that clips are cut from
MaxClipFrames == 3

\* number of frames sampled from a video whose quarter label is followed
MaxQuarterFrames == 3

\* number of frames sampled from a video whose quarter text is followed
MaxTextFrames == 2

\* number of frames and of discarded readings the tracker is seen to
\* count while the true score is fed to it
MaxTrueFrames == 3

\* number of games appended before the player totals are taken
MaxGames == 3

\* number of records in the two files of the dashboard together
MaxRecords == 3

---------------------------------------------------------------------------
\* Program constants

SampleInterval == 2
MaxScoreValue == 99
NormalDeltaMax == 4
JumpDeltaMax == 15
RunMinPoints == 6

\* Optional[int] None (ocr_scores never returns a negative value)
None == -1
\* Optional[List[int]] None of QuarterScore.end_score
NoScore == <<>>
NoData == [timestamp_sec |-> None]
\* the quarter region's text is not followed
NotRead == <<"not read">>
\* load_games() and load_pending() when the files do not exist
EmptyStore == [games |-> <<>>, pending |-> <<>>]
\* no call of a dashboard function
NoResult == [call |-> "", arg |-> <<>>, outcome |-> "", value |-> <<>>]
\* no call of batch_extract_clips
NoBatch ==
    [team_side |-> "", before_sec |-> 0, after_sec |-> 0, fails |-> {},
     ffmpeg |-> <<>>, clips |-> <<>>]

valid_quarters == {"1st", "2nd", "3rd", "4th", "OT"}

---------------------------------------------------------------------------
\* Data classes

\* GameTracker() as the dataclass constructs it
NewTracker ==
    [events |-> <<>>,
     last_left_score |-> 0,
     last_right_score |-> 0,
     last_quarter |-> "1st",
     frame_count |-> 0,
     errors |-> 0,
     quarter_scores |-> <<>>,
     player_stats_history |-> <<>>]

\* FrameData(timestamp_sec=ts): every other field at its default
NewFrameData(ts) ==
    [timestamp_sec |-> ts,
     left_score |-> None,
     right_score |-> None,
     clock |-> "",
     shot_clock |-> "",
     quarter |-> "",
     player_pts |-> None,
     player_reb |-> None,
     player_ast |-> None,
     player_fg |-> ""]

GameEvent(ts, vt, clock, quarter, type, details, left, right) ==
    [timestamp_sec |-> ts,
     video_time |-> vt,
     game_clock |-> clock,
     quarter |-> quarter,
     event_type |-> type,
     details |-> details,
     left_score |-> left,
     right_score |-> right]

QuarterScore(quarter, start) ==
    [quarter |-> quarter, start_score |-> start, end_score |-> NoScore]

\* f"{int(timestamp_sec // 60)}:{int(timestamp_sec % 60):02d}", as the pair
\* of the two numbers printed
VideoTime(ts) == <<ts \div 60, ts % 60>>

\* The details strings.  An f-string is kept as its pieces: the fixed text,
\* the shot-type label (a string of characters) and the values printed.
\* f"Left scored {shot_type} ({last}->{current})"
ScoreDetails(text, shot, from, to) ==
    [text |-> text, shot |-> shot, from |-> <<from>>, to |-> <<to>>,
     qfrom |-> "", qto |-> ""]

\* f"Score jump (missed window): {ll}-{lr} -> {cl}-{cr}"
JumpDetails(ll, lr, cl, cr) ==
    [text |-> "Score jump (missed window):", shot |-> <<>>,
     from |-> <<ll, lr>>, to |-> <<cl, cr>>, qfrom |-> "", qto |-> ""]

\* f"Quarter: {last_quarter} -> {quarter}"
QuarterDetails(a, b) ==
    [text |-> "Quarter:", shot |-> <<>>, from |-> <<>>, to |-> <<>>,
     qfrom |-> a, qto |-> b]

---------------------------------------------------------------------------
\* Shot-type labels, as strings of characters

LabelFT == <<"F", "T">>
Label2PT == <<"2", "P", "T">>
Label3PT == <<"3", "P", "T">>
Label3PTFT == <<"3", "P", "T", "+", "F", "T">>

DigitChars == <<"0", "1", "2", "3", "4", "5", "6", "7", "8", "9">>

RECURSIVE IntChars(_)
\* str(n) of a non-negative integer
IntChars(n) ==
    IF n < 10 THEN <<DigitChars[n + 1]>>
    ELSE IntChars(n \div 10) \o <<DigitChars[(n % 10) + 1]>>

\* ShotType with the entry for 3 missing from its table
ShotTypeNoThree(diff) ==
    CASE diff = 1 -> LabelFT
      [] diff = 2 -> Label2PT
      [] diff = 4 -> Label3PTFT
      [] OTHER -> <<"+">> \o IntChars(diff)

\* {1: "FT", 2: "2PT", 3: "3PT", 4: "3PT+FT"}.get(diff, f"+{diff}")
ShotType(diff) ==
    CASE diff = 1 -> LabelFT
      [] diff = 2 -> Label2PT
      [] diff = 3 -> Label3PT
      [] diff = 4 -> Label3PTFT
      [] OTHER -> <<"+">> \o IntChars(diff)

---------------------------------------------------------------------------
\* process_frame

\* the FrameData process_frame fills in and returns.  ocr holds what the
\* OCR functions return for the frame: clock, quarter, shot_clock, scores
\* (left, right) and stats (pts, reb, ast, fg)
FrameDataOf(live, ocr, ts, read_scores, read_stats) ==
    IF ~live THEN NewFrameData(ts)
    ELSE [timestamp_sec |-> ts,
          left_score |-> IF read_scores THEN ocr.left ELSE None,
          right_score |-> IF read_scores THEN ocr.right ELSE None,
          clock |-> ocr.clock,
          shot_clock |-> ocr.shot_clock,
          quarter |-> ocr.quarter,
          player_pts |-> IF read_stats THEN ocr.pts ELSE None,
          player_reb |-> IF read_stats THEN ocr.reb ELSE None,
          player_ast |-> IF read_stats THEN ocr.ast ELSE None,
          player_fg |-> IF read_stats THEN ocr.fg ELSE ""]

\* if read_stats and pts is not None: append to player_stats_history
AfterStats(t, d, read_stats) ==
    IF read_stats /\ d.player_pts # None
    THEN [t EXCEPT !.player_stats_history = Append(@,
              [timestamp_sec |-> d.timestamp_sec, pts |-> d.player_pts,
               reb |-> d.player_reb, ast |-> d.player_ast, fg |-> d.player_fg])]
    ELSE t

\* QuarterChanged without its test that the label is a new one
QuarterChangedAnyLabel(quarter, last_quarter) ==
    /\ quarter \in valid_quarters
    /\ last_quarter \in valid_quarters

\* QuarterChanged without its test that the label read is a known one
QuarterChangedUnknownToo(quarter, last_quarter) ==
    /\ quarter # last_quarter
    /\ last_quarter \in valid_quarters

\* the condition of the quarter change block
QuarterChanged(quarter, last_quarter) ==
    /\ quarter \in valid_quarters
    /\ quarter # last_quarter
    /\ last_quarter \in valid_quarters

\* the quarter change detection block and the update of last_quarter
AfterQuarter(t, d) ==
    LET score == <<t.last_left_score, t.last_right_score>>
        n == Len(t.quarter_scores)
        changed == QuarterChanged(d.quarter, t.last_quarter)
        closed == IF n > 0
                  THEN [t.quarter_scores EXCEPT ![n].end_score = score]
                  ELSE t.quarter_scores
        qs1 == IF changed
               THEN Append(closed, QuarterScore(d.quarter, score))
               ELSE t.quarter_scores
        ev1 == IF changed
               THEN Append(t.events,
                        GameEvent(d.timestamp_sec, VideoTime(d.timestamp_sec),
                                  d.clock, d.quarter, "quarter_change",
                                  QuarterDetails(t.last_quarter, d.quarter),
                                  t.last_left_score, t.last_right_score))
               ELSE t.events
        qs2 == IF d.quarter \in valid_quarters /\ qs1 = <<>>
               THEN <<QuarterScore(d.quarter, score)>>
               ELSE qs1
    IN [t EXCEPT !.quarter_scores = qs2,
                 !.events = ev1,
                 !.last_quarter = IF d.quarter \in valid_quarters
                                  THEN d.quarter ELSE @]

\* the hard sanity check on the effective scores
OutOfRange(current_left, current_right) ==
    \/ current_left < 0 \/ current_left > MaxScoreValue
    \/ current_right < 0 \/ current_right > MaxScoreValue

\* NegativeDelta looking at the left side only
NegativeDeltaLeftOnly(left_diff, right_diff) == left_diff < 0

\* NegativeDelta with "and" for "or"
NegativeDeltaBoth(left_diff, right_diff) == left_diff < 0 /\ right_diff < 0

\* scores never go down
NegativeDelta(left_diff, right_diff) == left_diff < 0 \/ right_diff < 0

\* NormalDelta with the threshold one too high
NormalDeltaOffByOne(left_diff, right_diff) ==
    /\ left_diff <= NormalDeltaMax + 1
    /\ right_diff <= NormalDeltaMax + 1
    /\ (left_diff > 0 \/ right_diff > 0)

\* normal scoring event
NormalDelta(left_diff, right_diff) ==
    /\ left_diff <= NormalDeltaMax
    /\ right_diff <= NormalDeltaMax
    /\ (left_diff > 0 \/ right_diff > 0)

\* JumpDelta with the threshold one too high
JumpDeltaOffByOne(left_diff, right_diff) ==
    /\ (left_diff = 0 \/ (0 < left_diff /\ left_diff <= JumpDeltaMax + 1))
    /\ (right_diff = 0 \/ (0 < right_diff /\ right_diff <= JumpDeltaMax + 1))
    /\ (left_diff > 0 \/ right_diff > 0)

\* JumpDelta satisfied by one side alone
JumpDeltaEitherSide(left_diff, right_diff) ==
    /\ \/ (left_diff = 0 \/ (0 < left_diff /\ left_diff <= JumpDeltaMax))
       \/ (right_diff = 0 \/ (0 < right_diff /\ right_diff <= JumpDeltaMax))
    /\ (left_diff > 0 \/ right_diff > 0)

\* plausible gap from a missed sampling window
JumpDelta(left_diff, right_diff) ==
    /\ (left_diff = 0 \/ (0 < left_diff /\ left_diff <= JumpDeltaMax))
    /\ (right_diff = 0 \/ (0 < right_diff /\ right_diff <= JumpDeltaMax))
    /\ (left_diff > 0 \/ right_diff > 0)

\* EffectiveScore taking a missing reading as 0
EffectiveScoreZero(read, last) == IF read # None THEN read ELSE 0

\* data.left_score if data.left_score is not None else tracker.last_left_score
EffectiveScore(read, last) == IF read # None THEN read ELSE last

\* the score change detection block
AfterScore(t, d) ==
    LET current_left == EffectiveScore(d.left_score, t.last_left_score)
        current_right == EffectiveScore(d.right_score, t.last_right_score)
        left_diff == current_left - t.last_left_score
        right_diff == current_right - t.last_right_score
        ts == d.timestamp_sec
        quarter == IF d.quarter # "" THEN d.quarter ELSE t.last_quarter
        left_ev == GameEvent(ts, VideoTime(ts), d.clock, quarter, "score_left",
                       ScoreDetails("Left scored", ShotType(left_diff),
                                    t.last_left_score, current_left),
                       current_left, current_right)
        right_ev == GameEvent(ts, VideoTime(ts), d.clock, quarter, "score_right",
                       ScoreDetails("Right scored", ShotType(right_diff),
                                    t.last_right_score, current_right),
                       current_left, current_right)
        jump_ev == GameEvent(ts, VideoTime(ts), d.clock, quarter, "score_jump",
                       JumpDetails(t.last_left_score, t.last_right_score,
                                   current_left, current_right),
                       current_left, current_right)
        rejected == [t EXCEPT !.errors = @ + 1]
    IN IF current_left = t.last_left_score /\ current_right = t.last_right_score
       THEN t
       ELSE IF OutOfRange(current_left, current_right) THEN rejected
       ELSE IF NegativeDelta(left_diff, right_diff) THEN rejected
       ELSE IF NormalDelta(left_diff, right_diff)
       THEN [t EXCEPT !.events = @ \o (IF left_diff > 0 THEN <<left_ev>> ELSE <<>>)
                                   \o (IF right_diff > 0 THEN <<right_ev>> ELSE <<>>),
                      !.last_left_score = current_left,
                      !.last_right_score = current_right]
       ELSE IF JumpDelta(left_diff, right_diff)
       THEN [t EXCEPT !.events = Append(@, jump_ev),
                      !.last_left_score = current_left,
                      !.last_right_score = current_right]
       ELSE rejected

\* process_frame running the score change block before the quarter block
process_frame_score_first(t, live, ocr, ts, read_scores, read_stats) ==
    LET d == FrameDataOf(live, ocr, ts, read_scores, read_stats)
    IN IF ~live
       THEN [t EXCEPT !.frame_count = @ + 1]
       ELSE [AfterQuarter(AfterScore(AfterStats(t, d, read_stats), d), d)
                EXCEPT !.frame_count = @ + 1]

\* process_frame counting a frame that is not gameplay as an error
process_frame_nonlive_error(t, live, ocr, ts, read_scores, read_stats) ==
    LET d == FrameDataOf(live, ocr, ts, read_scores, read_stats)
    IN IF ~live
       THEN [t EXCEPT !.frame_count = @ + 1, !.errors = @ + 1]
       ELSE [AfterScore(AfterQuarter(AfterStats(t, d, read_stats), d), d)
                EXCEPT !.frame_count = @ + 1]

\* process_frame(frame, tracker, timestamp_sec, read_scores, read_stats):
\* the tracker it leaves
process_frame(t, live, ocr, ts, read_scores, read_stats) ==
    LET d == FrameDataOf(live, ocr, ts, read_scores, read_stats)
    IN IF ~live
       THEN [t EXCEPT !.frame_count = @ + 1]
       ELSE [AfterScore(AfterQuarter(AfterStats(t, d, read_stats), d), d)
                EXCEPT !.frame_count = @ + 1]

---------------------------------------------------------------------------
\* process_video_to_summary

\* the text of a details string, character by character
TextChars(text) ==
    CASE text = "Left scored" ->
            <<"L", "e", "f", "t", " ", "s", "c", "o", "r", "e", "d">>
      [] text = "Right scored" ->
            <<"R", "i", "g", "h", "t", " ", "s", "c", "o", "r", "e", "d">>
      [] text = "Score jump (missed window):" ->
            <<"S", "c", "o", "r", "e", " ", "j", "u", "m", "p", " ", "(",
              "m", "i", "s", "s", "e", "d", " ", "w", "i", "n", "d", "o",
              "w", ")", ":">>
      [] OTHER -> <<"Q", "u", "a", "r", "t", "e", "r", ":">>

\* ev.details of a score_left / score_right event as Python holds it:
\* "Left scored 2PT (0->2)"
DetailsChars(details) ==
    TextChars(details.text) \o <<" ">> \o details.shot \o <<" ", "(">>
        \o IntChars(details.from[1]) \o <<"-", ">">>
        \o IntChars(details.to[1]) \o <<")">>

\* Python's  sub in s  on strings
Contains(sub, s) ==
    \E i \in 1..(Len(s) - Len(sub) + 1) : SubSeq(s, i, i + Len(sub) - 1) = sub

\* the keys in the order the loop tries them
ShotKeys == <<"FT", "2PT", "3PT", "3PT+FT">>

KeyChars(key) ==
    CASE key = "FT" -> LabelFT
      [] key = "2PT" -> Label2PT
      [] key = "3PT" -> Label3PT
      [] OTHER -> Label3PTFT

\* for key in (...): if key in ev.details: count it; break
\* the key counted for an event, "" when no key is in the details
CountedKey(ev) ==
    LET text == DetailsChars(ev.details)
        hits == {k \in 1..Len(ShotKeys) : Contains(KeyChars(ShotKeys[k]), text)}
    IN IF hits = {} THEN ""
       ELSE ShotKeys[CHOOSE k \in hits : \A j \in hits : k <= j]

\* shot_breakdown before the loop
NoShots == [k \in {"FT", "2PT", "3PT", "3PT+FT", "jump"} |-> 0]
ShotInit == [left |-> NoShots, right |-> NoShots]

\* one iteration of the shot-type loop
ShotStep(sb, ev) ==
    IF ev.event_type = "score_left"
    THEN LET k == CountedKey(ev)
         IN IF k = "" THEN sb ELSE [sb EXCEPT !.left[k] = @ + 1]
    ELSE IF ev.event_type = "score_right"
    THEN LET k == CountedKey(ev)
         IN IF k = "" THEN sb ELSE [sb EXCEPT !.right[k] = @ + 1]
    ELSE IF ev.event_type = "score_jump"
    THEN [sb EXCEPT !.left["jump"] = @ + 1, !.right["jump"] = @ + 1]
    ELSE sb

RECURSIVE ShotWalk(_, _, _)
\* the shot-type loop from event i on
ShotWalk(events, i, sb) ==
    IF i > Len(events) THEN sb
    ELSE ShotWalk(events, i + 1, ShotStep(sb, events[i]))

\* shot_breakdown after the loop over tracker.events
ShotBreakdown(events) == ShotWalk(events, 1, ShotInit)

\* the state of the scoring-run loop before the first event
RunInit ==
    [run_team |-> "None", run_start_pts |-> <<0, 0>>, run_start_time |-> <<>>,
     run_opp_pts |-> 0, scoring_runs |-> <<>>]

\* a run qualifies when the walk reaches the other side's event
RunQualifies(run_pts) == run_pts >= RunMinPoints

\* RunStep letting a run go on through a score_jump event
RunStepThroughJump(st, ev) ==
    LET begin(team) == [st EXCEPT !.run_team = team,
                                  !.run_start_pts = <<ev.left_score, ev.right_score>>,
                                  !.run_start_time = ev.video_time,
                                  !.run_opp_pts = 0]
        record(s, team, run_pts) ==
            [s EXCEPT !.scoring_runs = Append(@,
                [team |-> team, points |-> run_pts,
                 start_time |-> st.run_start_time, end_time |-> ev.video_time])]
    IN IF ev.event_type \notin {"score_left", "score_right", "score_jump"}
       THEN st
       ELSE IF ev.event_type = "score_left"
       THEN IF st.run_team # "left"
            THEN LET run_pts == ev.right_score - st.run_start_pts[2]
                 IN IF st.run_team = "right" /\ st.run_opp_pts = 0
                       /\ RunQualifies(run_pts)
                    THEN record(begin("left"), "right", run_pts)
                    ELSE begin("left")
            ELSE st
       ELSE IF ev.event_type = "score_right"
       THEN IF st.run_team # "right"
            THEN LET run_pts == ev.left_score - st.run_start_pts[1]
                 IN IF st.run_team = "left" /\ st.run_opp_pts = 0
                       /\ RunQualifies(run_pts)
                    THEN record(begin("right"), "left", run_pts)
                    ELSE begin("right")
            ELSE st
       ELSE st

\* one iteration of the scoring-run loop
RunStep(st, ev) ==
    LET begin(team) == [st EXCEPT !.run_team = team,
                                  !.run_start_pts = <<ev.left_score, ev.right_score>>,
                                  !.run_start_time = ev.video_time,
                                  !.run_opp_pts = 0]
        record(s, team, run_pts) ==
            [s EXCEPT !.scoring_runs = Append(@,
                [team |-> team, points |-> run_pts,
                 start_time |-> st.run_start_time, end_time |-> ev.video_time])]
    IN IF ev.event_type \notin {"score_left", "score_right", "score_jump"}
       THEN st
       ELSE IF ev.event_type = "score_left"
       THEN IF st.run_team # "left"
            THEN LET run_pts == ev.right_score - st.run_start_pts[2]
                 IN IF st.run_team = "right" /\ st.run_opp_pts = 0
                       /\ RunQualifies(run_pts)
                    THEN record(begin("left"), "right", run_pts)
                    ELSE begin("left")
            ELSE st
       ELSE IF ev.event_type = "score_right"
       THEN IF st.run_team # "right"
            THEN LET run_pts == ev.left_score - st.run_start_pts[1]
                 IN IF st.run_team = "left" /\ st.run_opp_pts = 0
                       /\ RunQualifies(run_pts)
                    THEN record(begin("right"), "left", run_pts)
                    ELSE begin("right")
            ELSE st
       ELSE [st EXCEPT !.run_team = "None"]

RECURSIVE RunWalk(_, _, _)
\* the scoring-run loop from event i on
RunWalk(events, i, st) ==
    IF i > Len(events) THEN st
    ELSE RunWalk(events, i + 1, RunStep(st, events[i]))

\* scoring_runs after the loop
ScoringRuns(events) == RunWalk(events, 1, RunInit).scoring_runs

\* CloseLastQuarter stamping the last record whether or not it is closed
CloseLastQuarterAlways(t) ==
    LET n == Len(t.quarter_scores)
    IN IF n > 0
       THEN [t EXCEPT !.quarter_scores[n].end_score =
                        <<t.last_left_score, t.last_right_score>>]
       ELSE t

\* close out the last quarter
CloseLastQuarter(t) ==
    LET n == Len(t.quarter_scores)
    IN IF n > 0 /\ t.quarter_scores[n].end_score = NoScore
       THEN [t EXCEPT !.quarter_scores[n].end_score =
                        <<t.last_left_score, t.last_right_score>>]
       ELSE t

\* quarter_scores_out
QuarterBreakdown(t) ==
    [i \in 1..Len(t.quarter_scores) |->
        LET qs == t.quarter_scores[i]
            end == IF qs.end_score # NoScore THEN qs.end_score
                   ELSE <<t.last_left_score, t.last_right_score>>
        IN [quarter |-> qs.quarter,
            start_score |-> qs.start_score,
            end_score |-> end,
            left_pts |-> end[1] - qs.start_score[1],
            right_pts |-> end[2] - qs.start_score[2]]]

\* player_final
PlayerFinal(t) ==
    LET h == t.player_stats_history
    IN IF h # <<>>
       THEN [pts |-> h[Len(h)].pts, reb |-> h[Len(h)].reb,
             ast |-> h[Len(h)].ast, fg |-> h[Len(h)].fg]
       ELSE [pts |-> None, reb |-> None, ast |-> None, fg |-> ""]

\* the dictionary returned, computed on the tracker t
SummaryOut(t) ==
    [quarter_scores |-> QuarterBreakdown(t),
     shot_type_breakdown |-> ShotBreakdown(t.events),
     scoring_runs |-> ScoringRuns(t.events),
     player_final_stats |-> PlayerFinal(t)]

\* process_video_to_summary building the quarter breakdown from the
\* QuarterScore properties (end_score, left_pts, right_pts: None while the
\* record is open) before it closes the last quarter
process_video_to_summary_early(t) ==
    LET props == [i \in 1..Len(t.quarter_scores) |->
                    LET qs == t.quarter_scores[i]
                    IN [quarter |-> qs.quarter,
                        start_score |-> qs.start_score,
                        end_score |-> qs.end_score,
                        left_pts |-> IF qs.end_score # NoScore
                                     THEN qs.end_score[1] - qs.start_score[1]
                                     ELSE None,
                        right_pts |-> IF qs.end_score # NoScore
                                      THEN qs.end_score[2] - qs.start_score[2]
                                      ELSE None]]
    IN [tracker |-> CloseLastQuarter(t),
        out |-> [SummaryOut(t) EXCEPT !.quarter_scores = props]]

\* process_video_to_summary(tracker): the tracker it leaves and the
\* dictionary it returns
process_video_to_summary(t) ==
    LET closed == CloseLastQuarter(t)
    IN [tracker |-> closed, out |-> SummaryOut(closed)]

---------------------------------------------------------------------------
\* Clip extraction: extract_clip and batch_extract_clips

\* asdict(e) of the events of a tracker: the list process_video returns
\* under "events" holds the same fields as the GameEvent objects
EventDicts(t) == t.events

\* ev.details of any event as Python holds it
EventDetailsChars(details) ==
    IF details.text = "Score jump (missed window):"
    THEN TextChars(details.text) \o <<" ">>
            \o IntChars(details.from[1]) \o <<"-">> \o IntChars(details.from[2])
            \o <<" ", "-", ">", " ">>
            \o IntChars(details.to[1]) \o <<"-">> \o IntChars(details.to[2])
    ELSE IF details.text = "Quarter:"
    THEN TextChars(details.text)
    ELSE DetailsChars(details)

\* the labels in the order the clip loop tries them
ClipShotKeys == <<"3PT+FT", "3PT", "2PT", "FT">>

\* shot_type = "basket"; for st in (...): if st in details: shot_type = st; break
ClipShotType(ev) ==
    LET text == EventDetailsChars(ev.details)
        hits == {k \in 1..Len(ClipShotKeys) :
                    Contains(KeyChars(ClipShotKeys[k]), text)}
    IN IF hits = {} THEN "basket"
       ELSE ClipShotKeys[CHOOSE k \in hits : \A j \in hits : k <= j]

\* clock.replace(":", "m").replace(".", "s") if clock else "???", on the
\* readings of ocr_clock the model has
ClockFn(clock) ==
    CASE clock = "" -> "???"
      [] clock = "4:52" -> "4m52"

\* f"{x:.3f}" of a time x of whole seconds: the whole part and the three
\* decimals printed
Fmt3(x) == <<x, 0>>

Max(a, b) == IF a >= b THEN a ELSE b

\* extract_clip(video_path, timestamp_sec, output_path, before_sec,
\* after_sec): the arguments -ss, -t and the output it hands to ffmpeg
extract_clip(timestamp_sec, output_path, before_sec, after_sec) ==
    LET start == Max(0, timestamp_sec - before_sec)
        duration == before_sec + after_sec
    IN [ss |-> Fmt3(start), t |-> Fmt3(duration), output |-> output_path]

\* target_types with the missed-window events left out
TargetTypesNoJump(team_side) ==
    IF team_side = "both" THEN {"score_left", "score_right"}
    ELSE IF team_side = "left" THEN {"score_left"}
    ELSE {"score_right"}

\* target_types
TargetTypes(team_side) ==
    IF team_side = "both" THEN {"score_left", "score_right", "score_jump"}
    ELSE IF team_side = "left" THEN {"score_left", "score_jump"}
    ELSE {"score_right", "score_jump"}

\* scoring = [e for e in events if e.get("event_type") in target_types]
ScoringEvents(events, team_side) ==
    SelectSeq(events, LAMBDA e : e.event_type \in TargetTypes(team_side))

\* "USA" if evt_type == "score_left" else "OPP"
TeamTag(ev) == IF ev.event_type = "score_left" THEN "USA" ELSE "OPP"

\* f"basket_{i+1:02d}_{_safe(quarter)}_{clock_fn}_{shot_type}_{team_tag}.mp4"
\* as its pieces, for the event at position i (from 1) of scoring; the
\* quarter of an event is one of the five labels, which _safe leaves as is
Filename(i, ev, shot_type, team_tag) ==
    [index |-> i, quarter |-> ev.quarter, clock_fn |-> ClockFn(ev.game_clock),
     shot_type |-> shot_type, team_tag |-> team_tag]

\* os.path.join(output_dir, filename)
OutPath(output_dir, filename) == <<output_dir, filename>>

\* the record appended when extract_clip returns
ClipRecord(filename, out_path, ev, shot_type, team_tag) ==
    [filename |-> filename,
     path |-> out_path,
     timestamp |-> ev.timestamp_sec,
     quarter |-> ev.quarter,
     clock |-> ev.game_clock,
     shot_type |-> shot_type,
     score_before |-> <<ev.left_score - (ev.left_score - ev.left_score),
                        ev.right_score>>,
     score_after |-> <<ev.left_score, ev.right_score>>,
     team |-> team_tag]

\* ErrorRecord swallowing the exception: the record of a clip that was cut
ErrorRecordAsClip(filename, out_path, exc, ev, shot_type, team_tag) ==
    ClipRecord(filename, out_path, ev, shot_type, team_tag)

\* the record appended when extract_clip raises exc
ErrorRecord(filename, out_path, exc, ev, shot_type, team_tag) ==
    [filename |-> filename,
     path |-> out_path,
     error |-> exc,
     timestamp |-> ev.timestamp_sec,
     quarter |-> ev.quarter,
     clock |-> ev.game_clock,
     shot_type |-> shot_type,
     team |-> team_tag]

\* str(exc) of what subprocess.run raises
FfmpegError == "Command returned non-zero exit status 1."

\* one iteration of the clip loop, for the event at position i (from 1) of
\* scoring: the call of ffmpeg and the record appended; failed tells
\* whether extract_clip raises
ClipStep(i, ev, output_dir, before_sec, after_sec, failed) ==
    LET shot_type == ClipShotType(ev)
        team_tag == TeamTag(ev)
        filename == Filename(i, ev, shot_type, team_tag)
        out_path == OutPath(output_dir, filename)
    IN [call |-> extract_clip(ev.timestamp_sec, out_path, before_sec, after_sec),
        record |-> IF failed
                   THEN ErrorRecord(filename, out_path, FfmpegError, ev,
                                    shot_type, team_tag)
                   ELSE ClipRecord(filename, out_path, ev, shot_type, team_tag)]

RECURSIVE ClipWalk(_, _, _, _, _, _, _)
\* the clip loop from position i of scoring on; acc holds the calls made
\* and the records appended so far
ClipWalk(scoring, i, output_dir, before_sec, after_sec, fails, acc) ==
    IF i > Len(scoring) THEN acc
    ELSE LET step == ClipStep(i, scoring[i], output_dir, before_sec,
                              after_sec, i \in fails)
         IN ClipWalk(scoring, i + 1, output_dir, before_sec, after_sec, fails,
                     [ffmpeg |-> Append(acc.ffmpeg, step.call),
                      clips |-> Append(acc.clips, step.record)])

\* batch_extract_clips leaving its loop at the first extraction that fails
batch_extract_clips_stop(events, team_side, output_dir, before_sec, after_sec, fails) ==
    LET scoring == ScoringEvents(events, team_side)
        done == {i \in 1..Len(scoring) : \A j \in fails : i <= j}
    IN ClipWalk(SubSeq(scoring, 1, Cardinality(done)), 1, output_dir,
                before_sec, after_sec, fails, [ffmpeg |-> <<>>, clips |-> <<>>])

\* batch_extract_clips(video_path, events, team_side, output_dir,
\* before_sec, after_sec): the calls of ffmpeg it makes and the list it
\* returns, when the extractions at the positions in fails raise
batch_extract_clips(events, team_side, output_dir, before_sec, after_sec, fails) ==
    ClipWalk(ScoringEvents(events, team_side), 1, output_dir,
             before_sec, after_sec, fails, [ffmpeg |-> <<>>, clips |-> <<>>])

---------------------------------------------------------------------------
\* ocr_quarter: from the text read off the quarter region to the label

LowerLetters ==
    <<"a", "b", "c", "d", "e", "f", "g", "h", "i", "j", "k", "l", "m", "n",
      "o", "p", "q", "r", "s", "t", "u", "v", "w", "x", "y", "z">>
UpperLetters ==
    <<"A", "B", "C", "D", "E", "F", "G", "H", "I", "J", "K", "L", "M", "N",
      "O", "P", "Q", "R", "S", "T", "U", "V", "W", "X", "Y", "Z">>

\* c.lower() of a character
LowerChar(c) ==
    IF \E i \in 1..Len(UpperLetters) : UpperLetters[i] = c
    THEN LowerLetters[CHOOSE i \in 1..Len(UpperLetters) : UpperLetters[i] = c]
    ELSE c

\* c.isalnum() of a lower-case character
IsAlnum(c) ==
    \/ \E i \in 1..Len(LowerLetters) : LowerLetters[i] = c
    \/ \E i \in 1..Len(DigitChars) : DigitChars[i] = c

\* the characters str.strip() removes
IsSpace(c) == c \in {" ", "\n", "\t"}

\* text.strip()
Strip(text) ==
    LET kept == {i \in 1..Len(text) : ~IsSpace(text[i])}
    IN IF kept = {} THEN <<>>
       ELSE SubSeq(text, CHOOSE i \in kept : \A j \in kept : i <= j,
                         CHOOSE i \in kept : \A j \in kept : i >= j)

\* ''.join(c for c in text.lower() if c.isalnum())
TextClean(text) ==
    SelectSeq([i \in 1..Len(text) |-> LowerChar(text[i])], IsAlnum)

\* Python's  c in s  for a character c
HasChar(c, s) == \E i \in 1..Len(s) : s[i] = c

\* the table of variants with "lst" left out
QuarterVariantsNoLst ==
    <<
       <<"1st", {<<"1", "s", "t">>, <<"1", "s">>, <<"i", "s", "t">>,
                 <<"1", "t">>}>>,
       <<"2nd", {<<"2", "n", "d">>, <<"2", "n">>, <<"2", "n", "c">>,
                 <<"a", "n", "d">>, <<"z", "n", "d">>}>>,
       <<"3rd", {<<"3", "r", "d">>, <<"3", "r">>, <<"3", "r", "e">>,
                 <<"3", "r", "a">>}>>,
       <<"4th", {<<"4", "t", "h">>, <<"4", "t">>, <<"4", "t", "r">>,
                 <<"4", "t", "i">>}>>,
       <<"OT", {<<"o", "t">>, <<"o", "o", "t">>}>>
    >>

\* the table of OCR variants of each quarter label, in the order tried
QuarterVariants ==
    <<
       <<"1st", {<<"1", "s", "t">>, <<"1", "s">>, <<"i", "s", "t">>,
                 <<"l", "s", "t">>, <<"1", "t">>}>>,
       <<"2nd", {<<"2", "n", "d">>, <<"2", "n">>, <<"2", "n", "c">>,
                 <<"a", "n", "d">>, <<"z", "n", "d">>}>>,
       <<"3rd", {<<"3", "r", "d">>, <<"3", "r">>, <<"3", "r", "e">>,
                 <<"3", "r", "a">>}>>,
       <<"4th", {<<"4", "t", "h">>, <<"4", "t">>, <<"4", "t", "r">>,
                 <<"4", "t", "i">>}>>,
       <<"OT", {<<"o", "t">>, <<"o", "o", "t">>}>>
    >>

\* the text ocr_quarter normalises: what tesseract read off the yellow
\* mask, or off the white threshold when that is longer and the yellow
\* text is empty or a single character
QuarterText(yellow, white) ==
    LET text == Strip(yellow)
        text2 == Strip(white)
    IN IF Len(text) < 2 /\ Len(text2) > Len(text) THEN text2 ELSE text

\* the label ocr_quarter returns for the text it normalises
NormalizeQuarter(text) ==
    LET text_clean == TextClean(text)
        hits == {k \in 1..Len(QuarterVariants) :
                    text_clean \in QuarterVariants[k][2]}
    IN IF hits # {}
       THEN QuarterVariants[CHOOSE k \in hits : \A j \in hits : k <= j][1]
       ELSE IF HasChar("1", text_clean)
                 /\ (HasChar("s", text_clean) \/ HasChar("t", text_clean))
       THEN "1st"
       ELSE IF HasChar("2", text_clean) /\ HasChar("n", text_clean) THEN "2nd"
       ELSE IF HasChar("3", text_clean) /\ HasChar("r", text_clean) THEN "3rd"
       ELSE IF HasChar("4", text_clean) /\ HasChar("t", text_clean) THEN "4th"
       ELSE ""

\* ocr_quarter(frame), for the two texts tesseract reads off the frame
ocr_quarter(yellow, white) == NormalizeQuarter(QuarterText(yellow, white))

\* pytesseract.image_to_string on the yellow mask: the texts the model tries
YellowTexts ==
    {<<"1", "s", "t">>, <<"1", "s">>, <<"i", "s", "t">>, <<"l", "s", "t">>,
     <<"1", "t">>, <<"g", "a", "r", "b", "a", "g", "e">>, <<"2", "n", "d">>,
     <<"2", "n", "c">>, <<"a", "n", "d">>, <<"z", "n", "d">>,
     <<"3", "r", "d">>, <<"3", "r", "a">>, <<"4", "t", "h">>,
     <<"4", "t", "i">>, <<"o", "t">>, <<"O", "T">>, <<"o", "o", "t">>,
     <<"1", "S", "T">>, <<"1", "s", "t", "\n">>, <<" ", "2", "n", "d">>,
     <<"1", "s", "t", ".">>, <<"Q", "1">>, <<"t", "4">>,
     <<"s", "t", "a", "r", "t", "1">>, <<"x", "2", "n">>, <<"3", " ", "r">>,
     <<>>, <<"1">>, <<"7", "t">>, <<"4">>}

\* pytesseract.image_to_string on the white threshold
WhiteTexts == {<<>>, <<"4", "t", "h", "\n">>}

---------------------------------------------------------------------------
\* The dashboard's data functions: data.py, append_game.py, pending.py

\* NAME_ALIASES.get(name, name)
normalize_name(name) ==
    CASE name = "MamalmDatMan" -> "MamaImDatMan"
      [] name = "MamalmDatMan_" -> "MamaImDatMan"
      [] name = "MamaImDatMan_" -> "MamaImDatMan"
      [] name = "JohnnyRed_" -> "JohhnyRed_"
      [] OTHER -> name

\* the counting stats, in the order the loop adds them
StatNames ==
    <<"pts", "reb", "ast", "stl", "blk", "fls", "to", "fgm", "fga", "tpm",
      "tpa", "ftm", "fta">>

\* d.get(key, default) of a dictionary
Get(d, key, default) == IF key \in DOMAIN d THEN d[key] ELSE default

\* the row a name gets when it is first seen
NewRow(name, pos) ==
    [k \in {"name", "pos", "games"} \cup {StatNames[i] : i \in 1..Len(StatNames)} |->
        CASE k = "name" -> name
          [] k = "pos" -> pos
          [] OTHER -> 0]

\* the position of the row of a name in rows, 0 when it has none
RowOf(rows, name) ==
    IF \E i \in 1..Len(rows) : rows[i]["name"] = name
    THEN CHOOSE i \in 1..Len(rows) : rows[i]["name"] = name
    ELSE 0

RECURSIVE AddStats(_, _, _)
\* for stat in [...]: r[stat] += p.get(stat, 0), from stat i on
AddStats(r, player, i) ==
    IF i > Len(StatNames) THEN r
    ELSE AddStats([r EXCEPT ![StatNames[i]] = @ + Get(player, StatNames[i], 0)],
                  player, i + 1)

\* pos_counts[name][pos] = pos_counts[name].get(pos, 0) + 1, the counts of
\* a name kept as pairs (pos, count) in the order of first appearance
CountPos(counts, pos) ==
    IF \E i \in 1..Len(counts) : counts[i][1] = pos
    THEN [i \in 1..Len(counts) |->
            IF counts[i][1] = pos THEN <<pos, counts[i][2] + 1>> ELSE counts[i]]
    ELSE Append(counts, <<pos, 1>>)

\* the body of the loop over the players of a game; acc holds rows (in the
\* order the names were first seen) and pos_counts (one entry per row)
TotalsStep(acc, player) ==
    LET name == normalize_name(player["name"])
        pos == Get(player, "pos", "")
        seen == RowOf(acc.rows, name) # 0
        rows1 == IF seen THEN acc.rows ELSE Append(acc.rows, NewRow(name, pos))
        counts1 == IF seen THEN acc.pos_counts ELSE Append(acc.pos_counts, <<>>)
        k == RowOf(rows1, name)
        r == AddStats([rows1[k] EXCEPT !["games"] = @ + 1], player, 1)
    IN [rows |-> [rows1 EXCEPT ![k] = r],
        pos_counts |-> [counts1 EXCEPT ![k] = CountPos(@, pos)]]

RECURSIVE PlayersWalk(_, _, _)
\* for p in game["players"], from player i on
PlayersWalk(acc, players, i) ==
    IF i > Len(players) THEN acc
    ELSE PlayersWalk(TotalsStep(acc, players[i]), players, i + 1)

RECURSIVE GamesWalk(_, _, _)
\* for game in games, from game g on
GamesWalk(acc, games, g) ==
    IF g > Len(games) THEN acc
    ELSE GamesWalk(PlayersWalk(acc, games[g]["players"], 1), games, g + 1)

\* max(pos_counts[name], key=pos_counts[name].get): the first position
\* with the highest count
PrimaryPos(counts) ==
    counts[CHOOSE i \in 1..Len(counts) :
              /\ \A j \in 1..Len(counts) : counts[j][2] <= counts[i][2]
              /\ \A j \in 1..(i - 1) : counts[j][2] < counts[i][2]][1]

\* get_player_totals(games): the rows of the DataFrame it returns
get_player_totals(games) ==
    LET acc == GamesWalk([rows |-> <<>>, pos_counts |-> <<>>], games, 1)
    IN [i \in 1..Len(acc.rows) |->
          [acc.rows[i] EXCEPT !["pos"] = PrimaryPos(acc.pos_counts[i])]]

\* REQUIRED_FIELDS
REQUIRED_FIELDS ==
    <<"id", "date", "screenshot", "opponent", "score", "quarters", "players">>

\* validate_game looking for the first six of the required fields
validate_game_first_six(game) ==
    IF \E i \in 1..6 : REQUIRED_FIELDS[i] \notin DOMAIN game
    THEN [outcome |-> "ValueError",
          value |-> REQUIRED_FIELDS[CHOOSE i \in 1..6 :
                      /\ REQUIRED_FIELDS[i] \notin DOMAIN game
                      /\ \A j \in 1..(i - 1) : REQUIRED_FIELDS[j] \in DOMAIN game]]
    ELSE [outcome |-> "returned", value |-> TRUE]

\* validate_game(game): True, or the ValueError raised for the first
\* required field that is missing
validate_game(game) ==
    IF \E i \in 1..Len(REQUIRED_FIELDS) : REQUIRED_FIELDS[i] \notin DOMAIN game
    THEN [outcome |-> "ValueError",
          value |-> REQUIRED_FIELDS[CHOOSE i \in 1..Len(REQUIRED_FIELDS) :
                      /\ REQUIRED_FIELDS[i] \notin DOMAIN game
                      /\ \A j \in 1..(i - 1) : REQUIRED_FIELDS[j] \in DOMAIN game]]
    ELSE [outcome |-> "returned", value |-> TRUE]

\* [g["screenshot"] for g in games]
ScreenshotsOf(games) == {games[i]["screenshot"] : i \in 1..Len(games)}

\* append_game(record): the files it leaves and how it ends
append_game(st, record) ==
    LET v == validate_game(record)
    IN IF v.outcome = "ValueError" THEN [store |-> st, outcome |-> v.outcome,
                                         value |-> v.value]
       ELSE IF record["screenshot"] \in ScreenshotsOf(st.games)
       THEN [store |-> st, outcome |-> "returned", value |-> "SKIP"]
       ELSE [store |-> [st EXCEPT !.games = Append(@, record)],
             outcome |-> "returned", value |-> "OK"]

\* add_to_pending(record): the files it leaves and how it ends
add_to_pending(st, record) ==
    IF record["screenshot"] \in ScreenshotsOf(st.pending)
    THEN [store |-> st, outcome |-> "returned", value |-> "SKIP pending"]
    ELSE IF record["screenshot"] \in ScreenshotsOf(st.games)
    THEN [store |-> st, outcome |-> "returned", value |-> "SKIP approved"]
    ELSE [store |-> [st EXCEPT !.pending = Append(@, record)],
          outcome |-> "returned", value |-> "PENDING"]

\* the records of a list whose id is not game_id
WithoutId(games, game_id) == SelectSeq(games, LAMBDA g : g["id"] # game_id)

\* approve_game(game_id, updated_players): updated_players is <<>> for
\* None, the players are left as they are, and <<rows>> for a list of rows
approve_game(st, game_id, updated_players) ==
    LET found == {i \in 1..Len(st.pending) : st.pending[i]["id"] = game_id}
    IN IF found = {}
       THEN [store |-> st, outcome |-> "returned", value |-> FALSE]
       ELSE LET game == st.pending[CHOOSE i \in found : \A j \in found : i <= j]
                edited == IF updated_players # <<>>
                          THEN [game EXCEPT !["players"] = updated_players[1]]
                          ELSE game
            IN [store |-> [games |-> Append(st.games, edited),
                           pending |-> WithoutId(st.pending, game_id)],
                outcome |-> "returned", value |-> TRUE]

\* reject_game(game_id)
reject_game(st, game_id) ==
    LET kept == WithoutId(st.pending, game_id)
    IN [store |-> [st EXCEPT !.pending = kept],
        outcome |-> "returned", value |-> Len(kept) < Len(st.pending)]

---------------------------------------------------------------------------
\* What the OCR functions return for a frame: the readings the model tries

\* ocr_clock and ocr_shot_clock
ClockReading == "4:52"
ShotClockReading == "14"

\* ocr_player_stats: (pts, reb, ast, fg), nothing read or one overlay
NoStats == [pts |-> None, reb |-> None, ast |-> None, fg |-> ""]
StatReadings == {NoStats, [pts |-> 12, reb |-> 3, ast |-> 4, fg |-> "50%"]}

OcrReading(quarter, scores, stats) ==
    [clock |-> ClockReading, shot_clock |-> ShotClockReading,
     quarter |-> quarter, left |-> scores[1], right |-> scores[2],
     pts |-> stats.pts, reb |-> stats.reb, ast |-> stats.ast, fg |-> stats.fg]

\* ocr_shot_clock from frame to frame
ShotClockReadings == {ShotClockReading, "24"}

\* the differences between a score reading and the accepted score that the
\* model tries: both sides of every threshold of the score change block
DeltaSamples == {-1, 0, 1, 2, 3, 4, 5, 15, 16}

\* both sides read, as differences to the accepted pair
MixedDeltas ==
    {<<2, 3>>, <<1, 4>>, <<-1, 2>>, <<2, -1>>, <<4, 5>>, <<5, 5>>,
     <<2, 16>>, <<16, -1>>, <<15, 15>>}

\* ocr_scores returns None or a value in 0..99 for each side
InRange(v) == 0 <= v /\ v <= MaxScoreValue

\* ocr_scores: one side read, or none, or both
ScoreReadings(t) ==
    LET l == t.last_left_score
        r == t.last_right_score
    IN {<<None, None>>}
       \cup {<<l + d, None>> : d \in {x \in DeltaSamples : InRange(l + x)}}
       \cup {<<None, r + d>> : d \in {x \in DeltaSamples : InRange(r + x)}}
       \cup {<<l + m[1], r + m[2]>> :
                m \in {x \in MixedDeltas : InRange(l + x[1]) /\ InRange(r + x[2])}}

\* the score readings tried together with a quarter label
QuietScoreReadings(t) ==
    {<<None, None>>, <<t.last_left_score + 2, None>>,
     <<None, t.last_right_score + 5>>}

\* score readings of a stretch of play in which every sample shows a score
\* change: a basket of either side, a basket of each, a missed window
BasketReadings(t) ==
    LET l == t.last_left_score
        r == t.last_right_score
    IN {<<l + 2, None>>, <<l + 3, None>>, <<None, r + 2>>, <<None, r + 3>>,
        <<l + 1, r + 4>>, <<l + 5, None>>}

\* ocr_quarter: one of the five labels, or "" for text it does not know
QuarterReadings == valid_quarters \cup {""}

\* the quarter and score readings of a video that clips are cut from: a
\* basket of either side, a basket of each, a missed window, the second
\* quarter
ClipReadings(t) ==
    LET l == t.last_left_score
        r == t.last_right_score
    IN {<<"", <<l + 2, None>>>>, <<"", <<None, r + 3>>>>,
        <<"", <<l + 1, r + 4>>>>, <<"", <<l + 5, None>>>>,
        <<"2nd", <<None, None>>>>}

\* the score readings of a stretch of play sampled twice as fast as it
\* scores: ten samples, a 2-pointer and three 3-pointers, alternating sides
SteadyScores ==
    <<<<0, 0>>, <<0, 0>>, <<2, 0>>, <<2, 0>>, <<2, 3>>, <<2, 3>>, <<5, 3>>,
      <<5, 3>>, <<5, 3>>, <<5, 6>>>>

\* the score readings tried in a video whose quarter label is followed:
\* nothing read, or a basket of the left side
QuarterScoreReadings(t) == {<<None, None>>, <<t.last_left_score + 2, None>>}

\* the player rows of the box scores the model tries: a full stat line
\* under an OCR variant of a name, a partial one under the canonical name,
\* a full one of another player, a row with a name only
PlayerVariant ==
    [name |-> "MamalmDatMan", pos |-> "PG", pts |-> 20, reb |-> 5, ast |-> 7,
     stl |-> 2, blk |-> 1, fls |-> 3, to |-> 4, fgm |-> 8, fga |-> 15,
     tpm |-> 2, tpa |-> 6, ftm |-> 2, fta |-> 3]
PlayerCanonical == [name |-> "MamaImDatMan", pos |-> "SG", pts |-> 11, reb |-> 2]
PlayerOther ==
    [name |-> "OBJ3onTwitch", pos |-> "C", pts |-> 15, reb |-> 3, ast |-> 1,
     stl |-> 1, blk |-> 2, fls |-> 1, to |-> 2, fgm |-> 6, fga |-> 11,
     tpm |-> 1, tpa |-> 3, ftm |-> 2, fta |-> 2]
PlayerNameOnly == [name |-> "JohnnyRed_"]

\* game["players"] of the games the model tries
PlayerLists ==
    {<<>>, <<PlayerVariant, PlayerOther>>,
     <<PlayerCanonical, PlayerOther, PlayerNameOnly>>,
     <<PlayerVariant, PlayerCanonical>>, <<PlayerNameOnly>>}

\* the ids build_game_record draws and the screenshot file names
GameIds == <<"game_1a2b3c4d", "game_5e6f7a8b", "game_9c0d1e2f", "game_3a4b5c6d">>
ScreenshotNames == <<"box_1.png", "box_2.png", "box_3.png", "box_4.png">>

\* build_game_record(...) with the id drawn
GameRecord(id, screenshot, players) ==
    [id |-> id, date |-> "2026-02-21", screenshot |-> screenshot,
     opponent |-> "Brazil", score |-> [us |-> 81, them |-> 62],
     quarters |-> [us |-> <<15, 20, 26, 20>>, them |-> <<16, 14, 20, 12>>],
     players |-> players]

\* a record without the fields in missing
Without(record, missing) ==
    [k \in DOMAIN record \ missing |-> record[k]]

\* the records the review queue and the importer are handed: two ids, two
\* screenshots
StoreRecords ==
    {GameRecord(GameIds[i], ScreenshotNames[j], <<>>) : i \in 1..2, j \in 1..2}

\* records with required fields missing: each field alone, and all but id
\* and opponent
IncompleteRecords ==
    {Without(GameRecord(GameIds[1], ScreenshotNames[1], <<>>), {REQUIRED_FIELDS[i]}) :
        i \in 1..Len(REQUIRED_FIELDS)}
    \cup {Without(GameRecord(GameIds[1], ScreenshotNames[1], <<>>),
                  {"date", "screenshot", "score", "quarters", "players"})}

\* updated_players of approve_game: None, or the edited rows
PlayerEdits == {<<>>, <<(<<PlayerOther>>)>>}

\* team_side as the film tab passes it, and "both"
TeamSides == {"left", "right", "both"}

\* before_sec and after_sec: the defaults, and a padding shorter than the
\* time of the first events
Paddings == {<<30, 2>>, <<2, 1>>}

\* output_dir
OutputDir == "clips"

\* the calls of process_frame the model tries on tracker t: a frame that
\* is not gameplay, live frames with a score reading and no quarter label,
\* live frames with a quarter reading, live frames with the stats overlay
\* read or not (read_stats)
FrameCalls(t) ==
    {[live |-> FALSE, ocr |-> OcrReading("", <<None, None>>, NoStats),
      read_stats |-> TRUE]}
    \cup {[live |-> TRUE, ocr |-> OcrReading("", sc, NoStats), read_stats |-> TRUE] :
             sc \in ScoreReadings(t)}
    \cup {[live |-> TRUE, ocr |-> OcrReading(q, sc, NoStats), read_stats |-> TRUE] :
             q \in QuarterReadings, sc \in QuietScoreReadings(t)}
    \cup {[live |-> TRUE, ocr |-> OcrReading("", <<None, None>>, st), read_stats |-> rs] :
             st \in StatReadings, rs \in BOOLEAN}

---------------------------------------------------------------------------
\* The state machine

Init ==
    /\ tracker = NewTracker
    /\ data = NoData
    /\ summaries = <<>>
    /\ batch = NoBatch
    /\ quarter_text = NotRead
    /\ store = EmptyStore
    /\ result = NoResult
    /\ op = "init"

\* one iteration of the sampling loop of process_video: the frame at
\* current_sec = frame_count * sample_interval goes through process_frame
FrameStep(live, ocr, read_stats) ==
    LET ts == tracker.frame_count * SampleInterval
    IN /\ tracker' = process_frame(tracker, live, ocr, ts, TRUE, read_stats)
       /\ data' = FrameDataOf(live, ocr, ts, TRUE, read_stats)
       /\ summaries' = <<>>
       /\ batch' = NoBatch
       /\ op' = IF live THEN "live" ELSE "nonlive"
       /\ UNCHANGED <<store, result>>

\* a frame whose quarter label is taken as ocr_quarter returns it
Frame(live, ocr, read_stats) ==
    /\ FrameStep(live, ocr, read_stats)
    /\ quarter_text' = NotRead

ProcessFrame ==
    /\ tracker.frame_count < MaxFrames
    /\ \E call \in FrameCalls(tracker) :
          Frame(call.live, call.ocr, call.read_stats)

\* a frame of a stretch of play in which every sample shows a score change
ProcessBasketFrame ==
    /\ tracker.frame_count < MaxRunFrames
    /\ \E sc \in BasketReadings(tracker) :
          Frame(TRUE, OcrReading("", sc, NoStats), TRUE)

\* a call of process_video_to_summary on the tracker
Summarize ==
    LET r == process_video_to_summary(tracker)
    IN /\ tracker' = r.tracker
       /\ summaries' = IF summaries = <<>> THEN <<r.out>>
                       ELSE <<summaries[Len(summaries)], r.out>>
       /\ data' = NoData
       /\ batch' = NoBatch
       /\ op' = "summary"
       /\ UNCHANGED <<quarter_text, store, result>>

Next == ProcessFrame \/ Summarize

Spec == Init /\ [][Next]_vars

\* the tracker over a stretch of play in which every sample shows a score
\* change, summarised at any point
NextBaskets == ProcessBasketFrame \/ Summarize

SpecBaskets == Init /\ [][NextBaskets]_vars

\* a frame of a video that clips are cut from
ProcessClipFrame ==
    /\ op # "clips"
    /\ tracker.frame_count < MaxClipFrames
    /\ \E r \in ClipReadings(tracker) :
          Frame(TRUE, OcrReading(r[1], r[2], NoStats), FALSE)

\* a call of batch_extract_clips on the events of the tracker, as the film
\* tab makes it after process_video(read_stats=False); ffmpeg fails on any
\* subset of the clips.  What a call returns depends on the event list
\* and its arguments alone, so the model follows one call per scan.
ExtractClips ==
    /\ op # "clips"
    /\ \E side \in TeamSides, pad \in Paddings :
         \E fails \in SUBSET (1..Len(ScoringEvents(EventDicts(tracker), side))) :
            LET r == batch_extract_clips(EventDicts(tracker), side, OutputDir,
                                         pad[1], pad[2], fails)
            IN /\ batch' = [team_side |-> side, before_sec |-> pad[1],
                            after_sec |-> pad[2], fails |-> fails,
                            ffmpeg |-> r.ffmpeg, clips |-> r.clips]
               /\ summaries' = <<>>
               /\ data' = NoData
               /\ op' = "clips"
               /\ UNCHANGED <<tracker, quarter_text, store, result>>

\* the next frame of the stretch of play of SteadyScores, in the first
\* quarter, with the stats overlay on screen or not
ProcessSteadyFrame ==
    /\ tracker.frame_count < Len(SteadyScores)
    /\ \E st \in StatReadings :
          Frame(TRUE, OcrReading("1st", SteadyScores[tracker.frame_count + 1], st),
                TRUE)

\* the tracker over the stretch of play of SteadyScores
NextSteady == ProcessSteadyFrame

SpecSteady == Init /\ [][NextSteady]_vars

\* a frame of a video whose quarter label is followed: a frame that is not
\* gameplay, or a live frame with any quarter reading
ProcessQuarterFrame ==
    /\ tracker.frame_count < MaxQuarterFrames
    /\ \/ Frame(FALSE, OcrReading("", <<None, None>>, NoStats), TRUE)
       \/ \E q \in QuarterReadings, sc \in QuarterScoreReadings(tracker) :
             Frame(TRUE, OcrReading(q, sc, NoStats), TRUE)

\* the tracker over a video whose quarter label is followed
NextQuarters == ProcessQuarterFrame

SpecQuarters == Init /\ [][NextQuarters]_vars

\* a live frame of a video whose quarter text is followed: ocr_quarter
\* turns what tesseract reads into the label process_frame gets
ProcessTextFrame ==
    /\ tracker.frame_count < MaxTextFrames
    /\ \E yellow \in YellowTexts, white \in WhiteTexts :
          /\ FrameStep(TRUE, OcrReading(ocr_quarter(yellow, white),
                                        <<None, None>>, NoStats), TRUE)
          /\ quarter_text' = QuarterText(yellow, white)

\* the tracker over a video whose quarter text is followed
NextText == ProcessTextFrame

SpecText == Init /\ [][NextText]_vars

\* the true score of the game at the frames sampled: it never goes down
TrueScores(d) ==
    {sc \in {0, 2, 16, 20} \X {0, 3} :
        d # NoData => sc[1] >= d.left_score /\ sc[2] >= d.right_score}

\* a counter as far as it is followed: it is held at MaxTrueFrames
Followed(n) == IF n <= MaxTrueFrames THEN n ELSE MaxTrueFrames

\* a live frame on which ocr_scores reads the true score on both sides,
\* with the shot clock wherever it stands
ProcessTrueFrame ==
    \E sc \in TrueScores(data), shot_clock \in ShotClockReadings :
        LET ts == tracker.frame_count * SampleInterval
            ocr == [OcrReading("1st", sc, NoStats)
                       EXCEPT !.shot_clock = shot_clock]
            t == process_frame(tracker, TRUE, ocr, ts, TRUE, FALSE)
        IN /\ tracker' = [t EXCEPT !.frame_count = Followed(@),
                                   !.errors = Followed(@)]
           /\ data' = FrameDataOf(TRUE, ocr, ts, TRUE, FALSE)
           /\ summaries' = <<>>
           /\ batch' = NoBatch
           /\ op' = "live"
           /\ quarter_text' = NotRead
           /\ UNCHANGED <<store, result>>

\* the tracker fed the true score for ever: the sampling loop goes on as
\* long as the video has frames
NextTrue == ProcessTrueFrame

SpecTrue == Init /\ [][NextTrue]_vars /\ WF_vars(ProcessTrueFrame)

\* a call of a dashboard function: r holds the files it leaves and how it
\* ends
DashboardCall(call, arg, r) ==
    /\ store' = r.store
    /\ result' = [call |-> call, arg |-> arg, outcome |-> r.outcome,
                  value |-> r.value]
    /\ op' = "dashboard"
    /\ UNCHANGED <<tracker, data, summaries, batch, quarter_text>>

\* the importer appends the game of the next box score
ImportGame ==
    /\ Len(store.games) < MaxGames
    /\ \E players \in PlayerLists :
          LET k == Len(store.games) + 1
              record == GameRecord(GameIds[k], ScreenshotNames[k], players)
          IN DashboardCall("append_game", record, append_game(store, record))

\* the dashboard computes the player totals of the approved games
PlayerTotals ==
    DashboardCall("get_player_totals", store.games,
                  [store |-> store, outcome |-> "returned",
                   value |-> get_player_totals(store.games)])

\* the dashboard over the games imported
NextTotals == ImportGame \/ PlayerTotals

SpecTotals == Init /\ [][NextTotals]_vars

\* the two files hold fewer records than the model follows
RoomInStore == Len(store.games) + Len(store.pending) < MaxRecords

AddToPending ==
    /\ RoomInStore
    /\ \E record \in StoreRecords :
          DashboardCall("add_to_pending", record, add_to_pending(store, record))

AppendGame ==
    /\ RoomInStore
    /\ \E record \in StoreRecords \cup IncompleteRecords :
          DashboardCall("append_game", record, append_game(store, record))

ApproveGame ==
    \E i \in 1..2, edit \in PlayerEdits :
        DashboardCall("approve_game", <<GameIds[i], edit>>,
                      approve_game(store, GameIds[i], edit))

RejectGame ==
    \E i \in 1..2 :
        DashboardCall("reject_game", GameIds[i], reject_game(store, GameIds[i]))

\* the review queue and the importer at work on the two files
NextStore == AddToPending \/ AppendGame \/ ApproveGame \/ RejectGame

SpecStore == Init /\ [][NextStore]_vars

\* the film tab: a video is scanned and clips are cut from its events
NextClips == ProcessClipFrame \/ ExtractClips

SpecClips == Init /\ [][NextClips]_vars

---------------------------------------------------------------------------
\* Properties of process_frame

ScoreEventTypes == {"score_left", "score_right", "score_jump"}

\* the events of a log with a type in types, in log order
EventsOfType(events, types) ==
    SelectSeq(events, LAMBDA e : e.event_type \in types)

\* a step of a live frame: the events the frame appended
NewEvents ==
    SubSeq(tracker'.events, Len(tracker.events) + 1, Len(tracker'.events))

\* a step of process_frame on a live frame
LiveStep == op' = "live"

\* a live frame left the accepted pair as it was, emitted no score event
\* and counted one error
RejectedStep ==
    /\ tracker'.last_left_score = tracker.last_left_score
    /\ tracker'.last_right_score = tracker.last_right_score
    /\ EventsOfType(tracker'.events, ScoreEventTypes)
           = EventsOfType(tracker.events, ScoreEventTypes)
    /\ tracker'.errors = tracker.errors + 1

EventsMonotone ==
    \A i \in 1..(Len(tracker.events) - 1) :
        /\ tracker.events[i + 1].left_score >= tracker.events[i].left_score
        /\ tracker.events[i + 1].right_score >= tracker.events[i].right_score

AcceptedNonDecreasing ==
    /\ tracker'.last_left_score >= tracker.last_left_score
    /\ tracker'.last_right_score >= tracker.last_right_score

\* C1: the accepted score pair never decreases on either side, and of every
\* two consecutive events of tracker.events the later one's left_score and
\* right_score are at least the earlier one's.
C1_MonotonicScores ==
    [](EventsMonotone) /\ [][AcceptedNonDecreasing]_vars

\* C1 witness: a log in which the score rose from one event to the next,
\* after a frame whose lower reading was rejected
C1_Witness ==
    /\ op = "live"
    /\ tracker.errors >= 1
    /\ data.left_score # None /\ data.left_score < tracker.last_left_score
    /\ \E i \in 1..(Len(tracker.events) - 1) :
          tracker.events[i + 1].left_score > tracker.events[i].left_score

\* the shot-type label of a delta, as C2 states it
LabelOfDelta(d) ==
    CASE d = 1 -> <<"F", "T">>
      [] d = 2 -> <<"2", "P", "T">>
      [] d = 3 -> <<"3", "P", "T">>
      [] d = 4 -> <<"3", "P", "T", "+", "F", "T">>
      [] OTHER -> <<>>

\* C2: a score_left (score_right) event is emitted only when the left
\* (right) accepted score rises by 1, 2, 3 or 4 over the score accepted
\* before the frame, and the label in its details is FT, 2PT, 3PT, 3PT+FT
\* for 1, 2, 3, 4; no other label ("+N") is written.
C2_ShotTypeOfDelta ==
    [][\A i \in 1..Len(NewEvents) :
          LET e == NewEvents[i]
              ld == tracker'.last_left_score - tracker.last_left_score
              rd == tracker'.last_right_score - tracker.last_right_score
          IN /\ e.event_type = "score_left" =>
                  /\ ld \in 1..4
                  /\ e.left_score = tracker'.last_left_score
                  /\ e.details.shot = LabelOfDelta(ld)
             /\ e.event_type = "score_right" =>
                  /\ rd \in 1..4
                  /\ e.right_score = tracker'.last_right_score
                  /\ e.details.shot = LabelOfDelta(rd)]_vars

\* C2 witness: one frame raised the left score by 1 and the right by 4
C2_Witness ==
    /\ op = "live"
    /\ \E i \in 1..(Len(tracker.events) - 1) :
          /\ tracker.events[i].event_type = "score_left"
          /\ tracker.events[i].details.shot = <<"F", "T">>
          /\ tracker.events[i + 1].event_type = "score_right"
          /\ tracker.events[i + 1].details.shot = <<"3", "P", "T", "+", "F", "T">>
          /\ tracker.events[i + 1].timestamp_sec = data.timestamp_sec

\* C3: a score_jump event is emitted only when each side's delta to the
\* score accepted before the frame is in 0..15 and not both are zero; the
\* frame then emits that one score_jump event and no score_left or
\* score_right event.
C3_JumpContained ==
    [][\A i \in 1..Len(NewEvents) :
          NewEvents[i].event_type = "score_jump" =>
            LET ld == NewEvents[i].left_score - tracker.last_left_score
                rd == NewEvents[i].right_score - tracker.last_right_score
            IN /\ ld \in 0..15 /\ rd \in 0..15
               /\ ~(ld = 0 /\ rd = 0)
               /\ EventsOfType(NewEvents, ScoreEventTypes) = <<NewEvents[i]>>]_vars

\* C3 witness: a frame 15 up on both sides emitted a score_jump
C3_Witness ==
    /\ op = "live"
    /\ \E i \in 1..Len(tracker.events) :
          /\ tracker.events[i].event_type = "score_jump"
          /\ tracker.events[i].timestamp_sec = data.timestamp_sec
          /\ tracker.events[i].details.to[1] - tracker.events[i].details.from[1] = 15
          /\ tracker.events[i].details.to[2] - tracker.events[i].details.from[2] = 15

\* a live reading of frame d with one side more than 15 over the accepted
\* score of tracker t
ExceedsJump(d, t) ==
    \/ d.left_score # None /\ d.left_score - t.last_left_score > 15
    \/ d.right_score # None /\ d.right_score - t.last_right_score > 15

\* C4: a live reading in which one side exceeds the accepted score by more
\* than 15 leaves the accepted pair unchanged, emits no score event and
\* raises the error counter by exactly 1.
C4_RejectsImplausibleJump ==
    [][(LiveStep /\ ExceedsJump(data', tracker)) => RejectedStep]_vars

\* C4 witness: after a frame read 16 over on the right with the left 2 up
C4_Witness ==
    /\ op = "live"
    /\ data.left_score # None /\ data.left_score - tracker.last_left_score = 2
    /\ data.right_score # None /\ data.right_score - tracker.last_right_score = 16
    /\ tracker.errors >= 1

\* a live reading of frame d whose effective score on some side is outside
\* 0..99 or below the accepted score of tracker t
LowerOrOutOfRange(d, t) ==
    \/ d.left_score # None
         /\ (d.left_score > 99 \/ d.left_score < 0 \/ d.left_score < t.last_left_score)
    \/ d.right_score # None
         /\ (d.right_score > 99 \/ d.right_score < 0 \/ d.right_score < t.last_right_score)

\* C5: a live reading in which either side's effective score is outside
\* 0..99 or lower than the accepted score is rejected as a whole, also when
\* the other side shows a valid positive delta: no score event, the
\* accepted pair unchanged, the error counter up by exactly 1.
C5_RejectsLoweredScore ==
    [][(LiveStep /\ LowerOrOutOfRange(data', tracker)) => RejectedStep]_vars

\* C5 witness: after a frame read the left side 1 lower and the right 2 up
C5_Witness ==
    /\ op = "live"
    /\ data.left_score # None /\ data.left_score = tracker.last_left_score - 1
    /\ data.right_score # None /\ data.right_score = tracker.last_right_score + 2
    /\ tracker.errors >= 1

QuarterChangeEvents(events) == EventsOfType(events, {"quarter_change"})

\* C6: a reading whose quarter equals the last accepted quarter emits no
\* quarter_change event; a fresh tracker fed "1st" and then "2nd" ends with
\* exactly one quarter_change event, with details "1st -> 2nd".
C6_NoSpuriousQuarterChange ==
    /\ [][(LiveStep /\ data'.quarter = tracker.last_quarter) =>
            QuarterChangeEvents(tracker'.events)
                = QuarterChangeEvents(tracker.events)]_vars
    /\ [][(/\ tracker.frame_count = 1 /\ op = "live" /\ data.quarter = "1st"
           /\ LiveStep /\ data'.quarter = "2nd") =>
            /\ Len(QuarterChangeEvents(tracker'.events)) = 1
            /\ QuarterChangeEvents(tracker'.events)[1].details.text = "Quarter:"
            /\ QuarterChangeEvents(tracker'.events)[1].details.qfrom = "1st"
            /\ QuarterChangeEvents(tracker'.events)[1].details.qto = "2nd"]_vars

\* C6 witness: the tracker after reading "1st" and then "2nd"
C6_Witness ==
    /\ op = "live" /\ tracker.frame_count = 2 /\ data.quarter = "2nd"
    /\ Len(tracker.quarter_scores) = 2
    /\ tracker.quarter_scores[1].quarter = "1st"
    /\ tracker.quarter_scores[2].quarter = "2nd"
    /\ Len(QuarterChangeEvents(tracker.events)) = 1

\* C7: the frame that delivers the first recognised quarter label, when no
\* QuarterScoreRecord exists yet, opens a record and emits no
\* quarter_change event.
C7_FirstLabelBootstraps ==
    [][(LiveStep /\ data'.quarter \in valid_quarters
            /\ tracker.quarter_scores = <<>>) =>
          /\ Len(tracker'.quarter_scores) = 1
          /\ tracker'.quarter_scores[1].quarter = data'.quarter
          /\ QuarterChangeEvents(tracker'.events)
                = QuarterChangeEvents(tracker.events)]_vars

\* C18: a live reading whose quarter is unknown (empty, not one of the
\* five labels) emits no quarter_change event, opens or closes no
\* QuarterScoreRecord and leaves the last accepted quarter unchanged; any
\* score event emitted from that frame carries the last accepted quarter
\* label.
C18_UnknownQuarterIgnored ==
    [][(LiveStep /\ data'.quarter \notin valid_quarters) =>
          /\ QuarterChangeEvents(tracker'.events)
                = QuarterChangeEvents(tracker.events)
          /\ tracker'.quarter_scores = tracker.quarter_scores
          /\ tracker'.last_quarter = tracker.last_quarter
          /\ \A i \in 1..Len(NewEvents) :
                NewEvents[i].event_type \in ScoreEventTypes =>
                    NewEvents[i].quarter = tracker.last_quarter]_vars

\* C18 witness: after the label "2nd" was accepted, a frame with an
\* unknown quarter emitted a score event
C18_Witness ==
    /\ op = "live"
    /\ data.quarter = ""
    /\ tracker.last_quarter = "2nd"
    /\ Len(tracker.quarter_scores) = 1
    /\ tracker.events # <<>>
    /\ LET e == tracker.events[Len(tracker.events)]
       IN /\ e.event_type \in ScoreEventTypes
          /\ e.timestamp_sec = data.timestamp_sec
          /\ e.quarter = "2nd"

\* C19: when a frame is classified as non-live, process_frame increments
\* the frame counter by exactly 1 and changes nothing else: no event is
\* appended, and the accepted score, accepted quarter, quarter records,
\* error counter and player-stat history are unchanged.
C19_NonLiveOnlyCounts ==
    [][op' = "nonlive" =>
          /\ tracker'.frame_count = tracker.frame_count + 1
          /\ \A f \in DOMAIN tracker \ {"frame_count"} : tracker'[f] = tracker[f]]_vars

\* C19 witness: a frame that is not gameplay came after a frame that left
\* an event, a quarter record and an accepted score
C19_Witness ==
    /\ op = "nonlive"
    /\ tracker.frame_count = 2
    /\ tracker.events # <<>>
    /\ tracker.quarter_scores # <<>>
    /\ tracker.last_left_score > 0

\* C25: a live reading with one side's score missing never changes that
\* side's accepted score, and a live reading with both scores missing
\* emits no score event, leaves the accepted pair unchanged and does not
\* increment the error counter.
C25_MissingReadingKeepsScore ==
    [][LiveStep =>
          /\ data'.left_score = None =>
                tracker'.last_left_score = tracker.last_left_score
          /\ data'.right_score = None =>
                tracker'.last_right_score = tracker.last_right_score
          /\ (data'.left_score = None /\ data'.right_score = None) =>
                /\ EventsOfType(tracker'.events, ScoreEventTypes)
                      = EventsOfType(tracker.events, ScoreEventTypes)
                /\ tracker'.errors = tracker.errors]_vars

\* C25 witness: with 2-0 accepted, a frame read no score on either side
C25_Witness ==
    /\ op = "live"
    /\ data.left_score = None /\ data.right_score = None
    /\ tracker.last_left_score = 2
    /\ tracker.frame_count = 2

\* the score snapshot of the event before position k of the log, 0-0 for
\* the first event
SnapshotBefore(events, k) ==
    IF k = 1 THEN <<0, 0>>
    ELSE <<events[k - 1].left_score, events[k - 1].right_score>>

\* C27: the event log alone determines each basket: for every score_left
\* (score_right) event, its own-side score snapshot minus the own-side
\* snapshot of the event just before it in the log (0 for the first event)
\* equals the delta named in its details, and the other side's snapshot
\* equals that of the event before, also when both sides score in the same
\* sample.
C27_LogDeterminesBaskets ==
    \A k \in 1..Len(tracker.events) :
       LET e == tracker.events[k]
           prev == SnapshotBefore(tracker.events, k)
       IN /\ e.event_type = "score_left" =>
               /\ e.left_score - prev[1] = e.details.to[1] - e.details.from[1]
               /\ e.right_score = prev[2]
          /\ e.event_type = "score_right" =>
               /\ e.right_score - prev[2] = e.details.to[1] - e.details.from[1]
               /\ e.left_score = prev[1]

---------------------------------------------------------------------------
\* Properties of process_video_to_summary

SummaryStep == op' = "summary"

\* C8: process_video_to_summary leaves every field of the tracker
\* unchanged, each quarter record's end score included.
C8_SummaryLeavesTracker ==
    [][SummaryStep => tracker' = tracker]_vars

\* C8 as amended: process_video_to_summary leaves every field of the
\* tracker unchanged, except that it sets the end score of the last quarter
\* record, when that is still unset, to the accepted score pair.
C8_SummaryOnlyClosesLastQuarter ==
    [][SummaryStep =>
        /\ \A f \in DOMAIN tracker \ {"quarter_scores"} : tracker'[f] = tracker[f]
        /\ Len(tracker'.quarter_scores) = Len(tracker.quarter_scores)
        /\ \A i \in 1..Len(tracker.quarter_scores) :
              LET old == tracker.quarter_scores[i]
                  new == tracker'.quarter_scores[i]
              IN /\ new.quarter = old.quarter
                 /\ new.start_score = old.start_score
                 /\ new.end_score =
                      IF i = Len(tracker.quarter_scores) /\ old.end_score = NoScore
                      THEN <<tracker.last_left_score, tracker.last_right_score>>
                      ELSE old.end_score]_vars

\* C8 witness: a summary was taken of a tracker whose last quarter record
\* had been closed at a score the accepted score has since left behind
C8_Witness ==
    /\ op = "summary"
    /\ tracker.quarter_scores # <<>>
    /\ tracker.quarter_scores[Len(tracker.quarter_scores)].end_score
          # <<tracker.last_left_score, tracker.last_right_score>>

\* C9: two calls of process_video_to_summary in succession, no frame in
\* between, return equal summaries.
C9_SummaryRepeatable ==
    Len(summaries) = 2 => summaries[1] = summaries[2]

\* C9 witness: two summaries in succession of a tracker with events, a
\* quarter record and player stats
C9_Witness ==
    /\ Len(summaries) = 2
    /\ tracker.quarter_scores # <<>>
    /\ tracker.events # <<>>
    /\ tracker.player_stats_history # <<>>

\* the score events of a log, in log order
ScoreLog(events) == EventsOfType(events, ScoreEventTypes)

\* the points of a score_left / score_right event, from its details
EventPoints(e) == e.details.to[1] - e.details.from[1]

RECURSIVE SpanPoints(_, _, _)
\* the points of the events a..b of a log
SpanPoints(log, a, b) ==
    IF a > b THEN 0 ELSE EventPoints(log[a]) + SpanPoints(log, a + 1, b)

\* the maximal spans a..b of consecutive events of one type in a log of
\* score events whose points total at least 6
QualifyingSpans(log, type) ==
    {span \in (1..Len(log)) \X (1..Len(log)) :
        /\ span[1] <= span[2]
        /\ \A k \in span[1]..span[2] : log[k].event_type = type
        /\ span[1] = 1 \/ log[span[1] - 1].event_type # type
        /\ span[2] = Len(log) \/ log[span[2] + 1].event_type # type
        /\ SpanPoints(log, span[1], span[2]) >= 6}

\* the runs of a summary reported for a team
RunsOf(summary, team) ==
    {i \in DOMAIN summary.scoring_runs : summary.scoring_runs[i].team = team}

\* the summary the last call returned
LastSummary == summaries[Len(summaries)]

\* C10: every maximal span of consecutive score events of one side whose
\* points total at least 6 is reported in the summary as a ScoringRun of
\* that side, also a span that lasts until the end of the log; the log
\* left+2, left+2, left+3 yields one left-side run.
C10_RunsReported ==
    op = "summary" =>
      LET log == ScoreLog(tracker.events)
      IN /\ Cardinality(RunsOf(LastSummary, "left"))
               >= Cardinality(QualifyingSpans(log, "score_left"))
         /\ Cardinality(RunsOf(LastSummary, "right"))
               >= Cardinality(QualifyingSpans(log, "score_right"))
         /\ (/\ Len(log) = 3
             /\ \A k \in 1..3 : log[k].event_type = "score_left"
             /\ <<EventPoints(log[1]), EventPoints(log[2]), EventPoints(log[3])>>
                   = <<2, 2, 3>>)
              => Cardinality(RunsOf(LastSummary, "left")) = 1

\* the spans a..b of consecutive events of one type in a log of score
\* events whose points total at least 6
SpansOfSixOrMore(log, type) ==
    {span \in (1..Len(log)) \X (1..Len(log)) :
        /\ span[1] <= span[2]
        /\ \A k \in span[1]..span[2] : log[k].event_type = type
        /\ SpanPoints(log, span[1], span[2]) >= 6}

\* the event type of a team's baskets
ScoreTypeOf(team) == IF team = "left" THEN "score_left" ELSE "score_right"

\* C11: every ScoringRun of the summary corresponds to a span of
\* consecutive score events of its side that total at least 6 points with
\* no score event of the other side inside; the log left+2, right+2,
\* left+2, left+3 reports no run.  This is for every log of the tracker,
\* those in which both sides score in one sample included.
C11_RunsAreSpans ==
    op = "summary" =>
      LET log == ScoreLog(tracker.events)
          runs == LastSummary.scoring_runs
      IN /\ \A i \in 1..Len(runs) :
               SpansOfSixOrMore(log, ScoreTypeOf(runs[i].team)) # {}
         /\ (/\ Len(log) = 4
             /\ <<log[1].event_type, log[2].event_type, log[3].event_type,
                   log[4].event_type>>
                   = <<"score_left", "score_right", "score_left", "score_left">>
             /\ <<EventPoints(log[1]), EventPoints(log[2]),
                   EventPoints(log[3]), EventPoints(log[4])>> = <<2, 2, 2, 3>>)
              => runs = <<>>

\* the delta that maps to a shot type
DeltaOfType(type) ==
    CASE type = "FT" -> 1
      [] type = "2PT" -> 2
      [] type = "3PT" -> 3
      [] type = "3PT+FT" -> 4

\* the number of events of a log of one event type whose points are d
CountOfDelta(events, type, d) ==
    Len(SelectSeq(events, LAMBDA e : e.event_type = type /\ EventPoints(e) = d))

\* C12: in the shot-type breakdown of the summary, for each side and each
\* type T of FT, 2PT, 3PT, 3PT+FT the count equals the number of that
\* side's score events whose delta maps to T (1, 2, 3, 4), and each side's
\* jump count equals the number of score_jump events of the log.
C12_ShotBreakdownCounts ==
    op = "summary" =>
      LET sb == LastSummary.shot_type_breakdown
          jumps == Len(EventsOfType(tracker.events, {"score_jump"}))
      IN /\ \A T \in {"FT", "2PT", "3PT", "3PT+FT"} :
               /\ sb.left[T] = CountOfDelta(tracker.events, "score_left", DeltaOfType(T))
               /\ sb.right[T] = CountOfDelta(tracker.events, "score_right", DeltaOfType(T))
         /\ sb.left["jump"] = jumps
         /\ sb.right["jump"] = jumps

---------------------------------------------------------------------------
\* Properties of batch_extract_clips and extract_clip

\* the event types that qualify for a clip of a team side
QualifyingTypes(side) ==
    CASE side = "left" -> {"score_left", "score_jump"}
      [] side = "right" -> {"score_right", "score_jump"}
      [] side = "both" -> {"score_left", "score_right", "score_jump"}

\* the events of the log that qualify for the last call, in log order
Qualifying == EventsOfType(tracker.events, QualifyingTypes(batch.team_side))

\* record rec is the record of the event ev at position i
RecordOf(rec, i, ev) ==
    /\ rec.filename.index = i
    /\ rec.timestamp = ev.timestamp_sec
    /\ rec.quarter = ev.quarter
    /\ rec.team = "USA" <=> ev.event_type = "score_left"
    /\ rec.shot_type = "basket" <=> ev.event_type = "score_jump"

\* C13: batch_extract_clips returns exactly one record per qualifying
\* event, in event order, whatever subset of the extractions fails: a
\* failure never removes or prevents the records of the other events, and
\* every event whose extraction succeeds gets a record with a path and no
\* error.
C13_OneRecordPerEvent ==
    op = "clips" =>
      /\ Len(batch.clips) = Len(Qualifying)
      /\ \A i \in 1..Len(Qualifying) :
            /\ RecordOf(batch.clips[i], i, Qualifying[i])
            /\ i \notin batch.fails =>
                  /\ "path" \in DOMAIN batch.clips[i]
                  /\ "error" \notin DOMAIN batch.clips[i]

\* C13 witness: of five qualifying events the extraction of the third
\* failed and the others succeeded
C13_Witness ==
    /\ op = "clips"
    /\ Len(Qualifying) = 5
    /\ batch.fails = {3}
    /\ Len(batch.clips) = 5

Thousandths(arg) == arg[1] * 1000 + arg[2]

\* C15: for every event timestamp t >= 0 and every before/after padding,
\* t smaller than before_seconds included, the segment requested from the
\* extraction tool starts at max(0, t - before_seconds) and ends at
\* t + after_seconds.
C15_ClipWindow ==
    op = "clips" =>
      \A i \in 1..Len(batch.ffmpeg) :
         LET t == Qualifying[i].timestamp_sec
             start == Thousandths(batch.ffmpeg[i].ss)
             duration == Thousandths(batch.ffmpeg[i].t)
         IN /\ start = 1000 * (IF t - batch.before_sec > 0
                               THEN t - batch.before_sec ELSE 0)
            /\ start + duration = 1000 * (t + batch.after_sec)

\* C16: batch_extract_clips attempts a clip for exactly these events, in
\* log order: for team_side "left" the score_left and score_jump events,
\* for "right" the score_right and score_jump events, for "both" the
\* score_left, score_right and score_jump events; a quarter_change event
\* never yields a clip.
C16_ClipsOfTeamSide ==
    op = "clips" =>
      /\ Len(batch.ffmpeg) = Len(Qualifying)
      /\ Len(batch.clips) = Len(Qualifying)
      /\ \A i \in 1..Len(Qualifying) :
            /\ RecordOf(batch.clips[i], i, Qualifying[i])
            /\ batch.ffmpeg[i].output[2] = batch.clips[i].filename
            /\ Qualifying[i].event_type # "quarter_change"

\* C16 witness: clips of the left side were cut from a log that holds a
\* quarter change, a basket of each side and a missed window
C16_Witness ==
    /\ op = "clips"
    /\ batch.team_side = "left"
    /\ \A type \in {"quarter_change", "score_left", "score_right", "score_jump"} :
          \E k \in 1..Len(tracker.events) : tracker.events[k].event_type = type
    /\ Len(batch.ffmpeg) = 2

---------------------------------------------------------------------------
\* Properties of the tracker over whole videos

\* the score events of the tracker as type, sample number and label
ScoreEventsBySample ==
    [i \in 1..Len(tracker.events) |->
        <<tracker.events[i].event_type,
          (tracker.events[i].timestamp_sec \div SampleInterval) + 1,
          tracker.events[i].details.shot>>]

\* C17: a fresh tracker fed ten live readings with scores 0-0, 0-0, 2-0,
\* 2-0, 2-3, 2-3, 5-3, 5-3, 5-3, 5-6 and quarter "1st" throughout ends with
\* exactly four score events (left at sample 3, right at sample 5, left at
\* sample 7, right at sample 10) labelled 2PT, 3PT, 3PT, 3PT, an error
\* counter of 0, no quarter_change event, and an accepted score of 5-6.
C17_SteadyGame ==
    tracker.frame_count = 10 =>
      /\ ScoreEventsBySample =
            << <<"score_left", 3, <<"2", "P", "T">> >>,
               <<"score_right", 5, <<"3", "P", "T">> >>,
               <<"score_left", 7, <<"3", "P", "T">> >>,
               <<"score_right", 10, <<"3", "P", "T">> >> >>
      /\ tracker.errors = 0
      /\ QuarterChangeEvents(tracker.events) = <<>>
      /\ <<tracker.last_left_score, tracker.last_right_score>> = <<5, 6>>

\* C17 witness: the tenth of the ten readings, 5-6 in the first quarter,
\* has gone through process_frame
C17_Witness ==
    /\ tracker.frame_count = 10
    /\ op = "live"
    /\ <<data.left_score, data.right_score>> = <<5, 6>>
    /\ data.quarter = "1st"
    /\ Len(tracker.quarter_scores) = 1

\* the labels of the quarter records of a tracker
RecordLabels(t) == {t.quarter_scores[i].quarter : i \in 1..Len(t.quarter_scores)}

\* no two quarter records carry the same label
DistinctRecordLabels ==
    \A i, j \in 1..Len(tracker.quarter_scores) :
        i # j => tracker.quarter_scores[i].quarter # tracker.quarter_scores[j].quarter

\* C20: after any sequence of frames, quarter_scores holds exactly one
\* QuarterScoreRecord per distinct recognised quarter label read from live
\* frames: every label read has a record (a frame that reads a label
\* leaves a record of it, no frame drops the record of a label, and a
\* record is only ever opened for the label the frame read) and no two
\* records carry the same label, also when the quarter reading goes back
\* to an earlier label (1st, 2nd, 1st).
C20_OneRecordPerLabel ==
    /\ [](DistinctRecordLabels)
    /\ [][/\ RecordLabels(tracker) \subseteq RecordLabels(tracker')
          /\ (LiveStep /\ data'.quarter \in valid_quarters) =>
                data'.quarter \in RecordLabels(tracker')
          /\ RecordLabels(tracker') \ RecordLabels(tracker) \subseteq
                (IF LiveStep THEN {data'.quarter} \cap valid_quarters ELSE {})]_vars

\* every quarter record but the last is closed, at the score the next
\* record starts from
RecordsChained ==
    \A i \in 1..(Len(tracker.quarter_scores) - 1) :
        /\ tracker.quarter_scores[i].end_score # NoScore
        /\ tracker.quarter_scores[i].end_score
              = tracker.quarter_scores[i + 1].start_score

\* C24: after any sequence of process_frame calls the quarter records form
\* a chain: every record except the last has its end score set, each
\* record's end score equals the next record's start score, and that
\* shared pair is the score accepted before the score change of the frame
\* in which the quarter transition was detected (points read in the
\* transition frame go to the new quarter).
C24_QuarterChain ==
    /\ [](RecordsChained)
    /\ [][(LiveStep /\ Len(tracker'.quarter_scores) > Len(tracker.quarter_scores)) =>
            LET n == Len(tracker.quarter_scores)
                before == <<tracker.last_left_score, tracker.last_right_score>>
            IN /\ Len(tracker'.quarter_scores) = n + 1
               /\ tracker'.quarter_scores[n + 1].start_score = before
               /\ n > 0 => tracker'.quarter_scores[n].end_score = before]_vars

\* C24 witness: three quarter records, the second and the third opened by
\* frames that also read a basket
C24_Witness ==
    /\ op = "live"
    /\ Len(tracker.quarter_scores) = 3
    /\ tracker.quarter_scores[2].start_score = <<0, 0>>
    /\ tracker.quarter_scores[3].start_score = <<2, 0>>
    /\ tracker.last_left_score = 4

\* the seconds of a video time
SecondsOf(video_time) == video_time[1] * 60 + video_time[2]

\* C26: no ScoringRun of the summary spans a score_jump event: points
\* scored before a score_jump are never combined with points scored after
\* it, and a run in progress when a score_jump occurs is dropped without
\* being reported, whatever its total.  No score_jump event lies between
\* the start and the end of a reported run, the ends included.
C26_NoRunThroughJump ==
    op = "summary" =>
      \A i \in 1..Len(LastSummary.scoring_runs) :
         \A k \in 1..Len(tracker.events) :
            tracker.events[k].event_type = "score_jump" =>
               ~ /\ SecondsOf(LastSummary.scoring_runs[i].start_time)
                       <= tracker.events[k].timestamp_sec
                 /\ tracker.events[k].timestamp_sec
                       <= SecondsOf(LastSummary.scoring_runs[i].end_time)

\* C26 witness: the summary of a log in which the left side's baskets,
\* 6 points or more, were followed by a score_jump and a basket of the
\* right side reports no run
C26_Witness ==
    /\ op = "summary"
    /\ LastSummary.scoring_runs = <<>>
    /\ LET log == ScoreLog(tracker.events)
       IN /\ Len(log) = 4
          /\ <<log[1].event_type, log[2].event_type, log[3].event_type,
                log[4].event_type>>
                = <<"score_left", "score_left", "score_jump", "score_right">>
          /\ SpanPoints(log, 1, 2) >= 6

RECURSIVE SumOver(_, _, _)
\* the sum of field f of the entries i.. of a quarter breakdown
SumOver(entries, f, i) ==
    IF i > Len(entries) THEN 0 ELSE entries[i][f] + SumOver(entries, f, i + 1)

\* no earlier summary has closed the last quarter record of the tracker:
\* the summary taken now is the one at the end of the run
RunStillOpen ==
    \/ tracker.quarter_scores = <<>>
    \/ tracker.quarter_scores[Len(tracker.quarter_scores)].end_score = NoScore

\* C28: in the summary produced at the end of a tracking run, the
\* per-quarter points of each side are non-negative and sum over all
\* quarter entries to that side's final accepted score, also in runs in
\* which score changes were accepted before the first recognised quarter
\* label was read.
C28_QuarterPointsSumToScore ==
    [][(SummaryStep /\ RunStillOpen) =>
          LET entries == summaries'[Len(summaries')].quarter_scores
          IN /\ \A i \in 1..Len(entries) :
                   entries[i].left_pts >= 0 /\ entries[i].right_pts >= 0
             /\ SumOver(entries, "left_pts", 1) = tracker'.last_left_score
             /\ SumOver(entries, "right_pts", 1) = tracker'.last_right_score]_vars

---------------------------------------------------------------------------
\* Properties of ocr_quarter

---------------------------------------------------------------------------
\* The dashboard's totals and its two files

\* the places (game, row) at which a canonical name appears in games
Appearances(games, canonical) ==
    {<<g, i>> \in (1..Len(games)) \X (1..4) :
        /\ i <= Len(games[g]["players"])
        /\ normalize_name(games[g]["players"][i]["name"]) = canonical}

\* the canonical names of the players of games
CanonicalNames(games) ==
    {normalize_name(games[g]["players"][i]["name"]) :
        <<g, i>> \in {<<g, i>> \in (1..Len(games)) \X (1..4) :
                        i <= Len(games[g]["players"])}}

RECURSIVE StatTotal(_, _, _)
\* the sum of a stat over a set of places, a missing stat counting as 0
StatTotal(games, places, stat) ==
    IF places = {} THEN 0
    ELSE LET at == CHOOSE q \in places : TRUE
             row == games[at[1]]["players"][at[2]]
         IN (IF stat \in DOMAIN row THEN row[stat] ELSE 0)
            + StatTotal(games, places \ {at}, stat)

\* C22: get_player_totals returns one row per canonical player name, whose
\* games is the number of game records the player appears in and whose
\* every counting stat is the sum of that stat over those appearances, a
\* missing stat counting as 0
C22_TotalsPerCanonicalPlayer ==
    result.call = "get_player_totals" =>
        LET games == result.arg
            rows == result.value
        IN /\ {rows[k]["name"] : k \in 1..Len(rows)} = CanonicalNames(games)
           /\ \A k, m \in 1..Len(rows) :
                 rows[k]["name"] = rows[m]["name"] => k = m
           /\ \A k \in 1..Len(rows) :
                 LET places == Appearances(games, rows[k]["name"])
                 IN /\ rows[k]["games"] = Cardinality({at[1] : at \in places})
                    /\ \A n \in 1..Len(StatNames) :
                          rows[k][StatNames[n]]
                            = StatTotal(games, places, StatNames[n])

\* the same with games counted per player row, which is what the loop does
TotalsPerPlayerRow ==
    result.call = "get_player_totals" =>
        LET games == result.arg
            rows == result.value
        IN /\ {rows[k]["name"] : k \in 1..Len(rows)} = CanonicalNames(games)
           /\ \A k \in 1..Len(rows) :
                 LET places == Appearances(games, rows[k]["name"])
                 IN /\ rows[k]["games"] = Cardinality(places)
                    /\ \A n \in 1..Len(StatNames) :
                          rows[k][StatNames[n]]
                            = StatTotal(games, places, StatNames[n])

\* the seven fields a game record is required to have
SevenFields ==
    {"id", "date", "screenshot", "opponent", "score", "quarters", "players"}

\* C23: validate_game returns True exactly when the record has all seven
\* required fields and raises ValueError when one is missing; append_game
\* stores nothing when the validation raises
C23_ValidateGame ==
    /\ [](result.call = "append_game" =>
            LET v == validate_game(result.arg)
            IN /\ (v.outcome = "returned" /\ v.value = TRUE)
                    <=> SevenFields \subseteq DOMAIN result.arg
               /\ ~(SevenFields \subseteq DOMAIN result.arg)
                    => /\ v.outcome = "ValueError"
                       /\ result.outcome = "ValueError")
    /\ [][(result'.call = "append_game" /\ result'.outcome = "ValueError")
            => store' = store]_vars

\* append_game has raised on a record without players while a game is
\* stored and another waits for review
C23_Witness ==
    /\ result.call = "append_game"
    /\ result.outcome = "ValueError"
    /\ DOMAIN result.arg = SevenFields \ {"players"}
    /\ Len(store.games) = 1
    /\ Len(store.pending) = 1

\* C30: no screenshot appears in more than one record across the pending
\* store and the approved store together
C30_ScreenshotOnce ==
    LET records == store.games \o store.pending
    IN \A i, j \in 1..Len(records) :
          records[i]["screenshot"] = records[j]["screenshot"] => i = j

\* the accepted pair is at most the score the last frame carried
AcceptedBehind ==
    /\ op = "live"
    /\ tracker.last_left_score <= data.left_score
    /\ tracker.last_right_score <= data.right_score

\* the accepted pair is the score the last frame carried
AcceptedCaughtUp ==
    /\ op = "live"
    /\ tracker.last_left_score = data.left_score
    /\ tracker.last_right_score = data.right_score

\* C29: whenever the accepted pair is component-wise at most the true
\* score, feeding live readings that carry the true, non-decreasing score
\* on both sides eventually makes the accepted pair equal to the reading,
\* whatever the gap
C29_NeverStuckRejecting == AcceptedBehind ~> AcceptedCaughtUp

====
